---- MODULE Spec2Model ----
(***************************************************************************)
(* MeasureFst (nemo_text_processing/text_normalization/en/taggers/         *)
(* measure.py): the weighted transducer that tags measures, addresses and  *)
(* inline equations.                                                       *)
(*                                                                         *)
(* A transducer is modelled by what it does to one input string: an        *)
(* operator G(s, R) takes the input s and a set R of partial paths         *)
(* [pos, out, w] (next input position, output written so far, weight so    *)
(* far) and returns the set of paths extended by G.  Concatenation is      *)
(* operator nesting, union is set union, a closure(0,1) is "R \cup G(R)".  *)
(* Weights are kept as integers in thousandths (-0.001 is -1).             *)
(* Strings are TLA+ strings; SubSeq(s, i, i) is the i-th character.        *)
(* The classifier is built with deterministic = True (the default), so     *)
(* cardinal_graph is cardinal.graph without the range graph.               *)
(***************************************************************************)
EXTENDS Integers, Sequences, FiniteSets, TLC

VARIABLES input, lm, pc, paths, output

vars == <<input, lm, pc, paths, output>>

(***************************************************************************)
(* Characters and path helpers                                             *)
(***************************************************************************)
Ch(s, i) == SubSeq(s, i, i)

Lower == "abcdefghijklmnopqrstuvwxyz"

Upper == "ABCDEFGHIJKLMNOPQRSTUVWXYZ"

AlphabetSize == Len(Lower)

LowerSet == {Ch(Lower, k) : k \in 1..AlphabetSize}

UpperSet == {Ch(Upper, k) : k \in 1..AlphabetSize}

NEMO_ALPHA == LowerSet \cup UpperSet

NEMO_DIGIT == {"0", "1", "2", "3", "4", "5", "6", "7", "8", "9"}

NEMO_SPACE == " "

\* U+00A0 in the program; a character that is not the ordinary space.
NEMO_NON_BREAKING_SPACE == "_"

\* TO_LOWER: the union of cross(X, x) over the upper-case letters.  It
\* accepts an upper-case letter only.
TO_LOWER(c) == Ch(Lower, CHOOSE k \in 1..AlphabetSize : Ch(Upper, k) = c)

UpperToLower(c) == IF c \in UpperSet THEN TO_LOWER(c) ELSE c

RECURSIVE MapChars(_, _, _)
\* s with every character equal to from replaced by to
MapChars(s, from, to) ==
    IF Len(s) = 0 THEN ""
    ELSE (IF Ch(s, 1) = from THEN to ELSE Ch(s, 1)) \o MapChars(Tail(s), from, to)

\* convert_space: ordinary spaces of the output become non-breaking spaces
convert_space(str) == MapChars(str, NEMO_SPACE, NEMO_NON_BREAKING_SPACE)

RECURSIVE LowerPrefix(_, _)
\* s with its first k characters (all upper-case) lower-cased
LowerPrefix(s, k) ==
    IF k = 0 THEN s ELSE TO_LOWER(Ch(s, 1)) \o LowerPrefix(Tail(s), k - 1)

AllIn(s, a, b, S) == \A k \in a..b : Ch(s, k) \in S

Start == {[pos |-> 1, out |-> "", w |-> 0]}

Ext(r, p, o, dw) == [pos |-> p, out |-> r.out \o o, w |-> r.w + dw]

\* pynutil.insert(str)
Insert(R, str) == {Ext(r, r.pos, str, 0) : r \in R}

\* pynini.accep(str): consume str and write it
Accep(s, R, str) ==
    {Ext(r, r.pos + Len(str), str, 0) :
        r \in {q \in R : /\ q.pos + Len(str) - 1 <= Len(s)
                          /\ SubSeq(s, q.pos, q.pos + Len(str) - 1) = str}}

\* pynini.cross(a, b): consume a and write b
Cross(s, R, a, b) ==
    {Ext(r, r.pos + Len(a), b, 0) :
        r \in {q \in R : /\ q.pos + Len(a) - 1 <= Len(s)
                          /\ SubSeq(s, q.pos, q.pos + Len(a) - 1) = a}}

\* pynutil.add_weight over the paths X that extend R
AddWeight(X, dw) == {[x EXCEPT !.w = @ + dw] : x \in X}

\* the positions reachable from p by consuming characters of S (p included)
RunEnds(s, p, S) == {j \in p..(Len(s) + 1) : AllIn(s, p, j - 1, S)}

\* delete_space: pynutil.delete(closure(NEMO_WHITE_SPACE))
delete_space(s, R) ==
    UNION {{Ext(r, j, "", 0) : j \in RunEnds(s, r.pos, {NEMO_SPACE})} : r \in R}

\* insert_space
insert_space(R) == Insert(R, " ")

\* closure(S): any run of characters of S, copied
ClosureOf(s, R, S, min) ==
    UNION {{Ext(r, j, SubSeq(s, r.pos, j - 1), 0) :
               j \in {e \in RunEnds(s, r.pos, S) : e - r.pos >= min}} : r \in R}

\* the paths that consumed the whole input
Complete(s, R) == {r \in R : r.pos = Len(s) + 1}

(***************************************************************************)
(* The injected primitive grammars (CardinalFst, DecimalFst, FractionFst,  *)
(* the ordinal tagger and verbalizer).  They are built elsewhere; what is  *)
(* modelled is the English spelling of a decimal numeral, which is what    *)
(* they are consumed for.                                                  *)
(***************************************************************************)
DigitVal(c) ==
    CASE c = "0" -> 0 [] c = "1" -> 1 [] c = "2" -> 2 [] c = "3" -> 3
      [] c = "4" -> 4 [] c = "5" -> 5 [] c = "6" -> 6 [] c = "7" -> 7
      [] c = "8" -> 8 [] c = "9" -> 9

DigitName(c) ==
    CASE c = "0" -> "zero" [] c = "1" -> "one" [] c = "2" -> "two"
      [] c = "3" -> "three" [] c = "4" -> "four" [] c = "5" -> "five"
      [] c = "6" -> "six" [] c = "7" -> "seven" [] c = "8" -> "eight"
      [] c = "9" -> "nine"

RECURSIVE NumVal(_)
NumVal(s) ==
    IF Len(s) = 0 THEN 0
    ELSE NumVal(SubSeq(s, 1, Len(s) - 1)) * 10 + DigitVal(Ch(s, Len(s)))

Ones == <<"one", "two", "three", "four", "five", "six", "seven", "eight",
          "nine", "ten", "eleven", "twelve", "thirteen", "fourteen",
          "fifteen", "sixteen", "seventeen", "eighteen", "nineteen">>

Tens == <<"ten", "twenty", "thirty", "forty", "fifty", "sixty", "seventy",
          "eighty", "ninety">>

SpellBelowHundred(n) ==
    IF n <= Len(Ones) THEN Ones[n]
    ELSE Tens[n \div 10] \o (IF n % 10 = 0 THEN "" ELSE " " \o Ones[n % 10])

SpellBelowThousand(n) ==
    IF n < 100 THEN SpellBelowHundred(n)
    ELSE Ones[n \div 100] \o " hundred"
         \o (IF n % 100 = 0 THEN "" ELSE " " \o SpellBelowHundred(n % 100))

\* the cardinal number name of n, 0 <= n < 1000000
Spell(n) ==
    IF n = 0 THEN "zero"
    ELSE IF n < 1000 THEN SpellBelowThousand(n)
    ELSE SpellBelowThousand(n \div 1000) \o " thousand"
         \o (IF n % 1000 = 0 THEN "" ELSE " " \o SpellBelowThousand(n % 1000))

\* the longest numeral the cardinal number names cover in the model
MaxCardinalDigits == 6

\* a decimal numeral: digits, no leading zero unless it is "0" itself
IsNumeral(str) ==
    /\ Len(str) >= 1
    /\ Len(str) <= MaxCardinalDigits
    /\ AllIn(str, 1, Len(str), NEMO_DIGIT)
    /\ (Len(str) > 1 => Ch(str, 1) # "0")

NumeralEnds(s, p) ==
    {j \in RunEnds(s, p, NEMO_DIGIT) : IsNumeral(SubSeq(s, p, j - 1))}

\* cardinal.graph: a numeral to its cardinal number name
cardinal_graph_of(str) == IF IsNumeral(str) THEN {Spell(NumVal(str))} ELSE {}

\* cardinal.graph_hundred_component_at_least_one_none_zero_digit:
\* two or three digits, or one digit that is not "0", through the number names
graph_hundred_component_at_least_one_none_zero_digit(str) ==
    IF /\ IsNumeral(str)
       /\ Len(str) <= 3
       /\ str # "0"
    THEN {Spell(NumVal(str))} ELSE {}

RECURSIVE single_digits_graph(_)
\* cardinal.single_digits_graph: digit by digit, joined by spaces
single_digits_graph(str) ==
    IF Len(str) = 1 THEN DigitName(str)
    ELSE DigitName(Ch(str, 1)) \o " " \o single_digits_graph(Tail(str))

\* cardinal.graph as a step of a path
cardinal_graph(s, R) ==
    UNION {{Ext(r, j, Spell(NumVal(SubSeq(s, r.pos, j - 1))), 0) :
               j \in NumeralEnds(s, r.pos)} : r \in R}

\* a sub-transducer given on whole strings, G(str) = its outputs for str,
\* as a step of a path: it may consume any non-empty stretch of the input
ApplyAt(s, R, G(_)) ==
    UNION {UNION {{Ext(r, j, o, 0) : o \in G(SubSeq(s, r.pos, j - 1))} :
                     j \in (r.pos + 1)..(Len(s) + 1)} : r \in R}

\* decimal.final_graph_wo_negative: [numeral] "." digits
decimal_final_graph_wo_negative(str) ==
    {(IF k = 1 THEN ""
      ELSE "integer_part: \"" \o Spell(NumVal(SubSeq(str, 1, k - 1))) \o "\" ")
     \o "fractional_part: \"" \o single_digits_graph(SubSeq(str, k + 1, Len(str)))
     \o "\"" :
        k \in {d \in 1..(Len(str) - 1) :
                 /\ Ch(str, d) = "."
                 /\ (d > 1 => IsNumeral(SubSeq(str, 1, d - 1)))
                 /\ AllIn(str, d + 1, Len(str), NEMO_DIGIT)}}

\* fraction.graph: numeral "/" numeral
fraction_graph(str) ==
    {"numerator: \"" \o Spell(NumVal(SubSeq(str, 1, k - 1)))
     \o "\" denominator: \"" \o Spell(NumVal(SubSeq(str, k + 1, Len(str)))) \o "\"" :
        k \in {d \in 2..(Len(str) - 1) :
                 /\ Ch(str, d) = "/"
                 /\ IsNumeral(SubSeq(str, 1, d - 1))
                 /\ IsNumeral(SubSeq(str, d + 1, Len(str)))}}

\* the ordinal tagger composed with the ordinal verbalizer: "82nd" to
\* "eighty second"
OrdinalWords ==
    {<<"1st", "first">>, <<"2nd", "second">>, <<"3rd", "third">>,
     <<"82nd", "eighty second">>}

ordinal_num(str) == {p[2] : p \in {q \in OrdinalWords : q[1] = str}}

(***************************************************************************)
(* The lexicons (data/*.tsv) and the string rewrites of graph_utils        *)
(***************************************************************************)
\* data/measurements.tsv: written unit, unit name
measurements ==
    {<<"kg", "kilogram">>, <<"km", "kilometer">>, <<"h", "hour">>,
     <<"ft", "foot">>, <<"in", "inch">>,
     <<"c", "degree Celsius">>, <<"f", "degree Fahrenheit">>}

\* data/suppletive.tsv
suppletive == {<<"foot", "feet">>}

Consonants == LowerSet \ {"a", "e", "i", "o", "u"}

EndsWith(str, suf) ==
    /\ Len(str) >= Len(suf)
    /\ SubSeq(str, Len(str) - Len(suf) + 1, Len(str)) = suf

\* SINGULAR_TO_PLURAL: the suppletive form, else consonant + y to ies, else
\* es after s, sh, ch, x, z, else s (a priority union in this order)
SINGULAR_TO_PLURAL(str) ==
    IF \E p \in suppletive : p[1] = str
    THEN (CHOOSE p \in suppletive : p[1] = str)[2]
    ELSE IF /\ Len(str) >= 2
            /\ Ch(str, Len(str)) = "y"
            /\ Ch(str, Len(str) - 1) \in Consonants
    THEN SubSeq(str, 1, Len(str) - 1) \o "ies"
    ELSE IF \E suf \in {"s", "sh", "ch", "x", "z"} : EndsWith(str, suf)
    THEN str \o "es"
    ELSE str \o "s"

\* data/math_operations.tsv: operator sign, spoken operator
math_operations_table ==
    {<<"+", "plus">>, <<"-", "minus">>, <<"*", "times">>, <<"/", "divided">>}

\* data/address/address_words.tsv: abbreviation, word
address_words_table ==
    {<<"st", "street">>, <<"expy", "expressway">>, <<"rd", "road">>}

\* data/address/states.tsv: state name, USPS abbreviation
states_table == {<<"California", "CA">>, <<"Texas", "TX">>}

\* x[0].upper() + x[1:]
UpperFirst(str) ==
    (IF Ch(str, 1) \in LowerSet
     THEN Ch(Upper, CHOOSE k \in 1..AlphabetSize : Ch(Lower, k) = Ch(str, 1))
     ELSE Ch(str, 1)) \o Tail(str)

\* whitelist.get_formats: each pair, the abbreviation with a period, and
\* both again with abbreviation and word capitalised
get_formats(table) ==
    table
    \cup {<<p[1] \o ".", p[2]>> : p \in table}
    \cup {<<UpperFirst(p[1]), UpperFirst(p[2])>> : p \in table}
    \cup {<<UpperFirst(p[1]) \o ".", UpperFirst(p[2])>> : p \in table}

\* pynini.string_map / string_file of a table, on a whole string
StringMap(table, str) == {p[2] : p \in {q \in table : q[1] = str}}

(***************************************************************************)
(* MeasureFst.__init__: the unit transducers                               *)
(***************************************************************************)
\* pynini.string_file("data/measurements.tsv")
graph_unit_table(str) == StringMap(measurements, str)

\* closure(TO_LOWER, 1) + closure(NEMO_ALPHA): the strings str is rewritten
\* to, a non-empty run of leading upper-case letters lower-cased and the
\* letters after it kept
LowerProjection(str) ==
    {LowerPrefix(str, k) :
        k \in {n \in 1..Len(str) : /\ AllIn(str, 1, n, UpperSet)
                                   /\ AllIn(str, n + 1, Len(str), NEMO_ALPHA)}}

\* graph_unit without the lower-case projection
graph_unit_exact_case(str) == graph_unit_table(str)

\* graph_unit: the table, or the table after the lower-case projection
graph_unit(str) ==
    graph_unit_table(str)
    \cup UNION {graph_unit_table(low) : low \in LowerProjection(str)}

DegreeUnits == {"degree Celsius", "degree Fahrenheit"}

\* graph_unit_no_degrees without the difference
graph_unit_keeping_degrees(str) == graph_unit(str)

\* graph_unit_no_degrees: graph_unit without the two degree units
graph_unit_no_degrees(str) == graph_unit(str) \ DegreeUnits

\* graph_unit_plural
graph_unit_plural(str) ==
    {convert_space(SINGULAR_TO_PLURAL(u)) : u \in graph_unit_no_degrees(str)}
    \cup {"degrees Celsius" : u \in graph_unit(str) \cap {"degree Celsius"}}
    \cup {"degrees Fahrenheit" : u \in graph_unit(str) \cap {"degree Fahrenheit"}}

\* graph_unit = convert_space(graph_unit)
graph_unit_spaced(str) == {convert_space(u) : u \in graph_unit(str)}

\* optional_graph_negative
optional_graph_negative(s, R) ==
    R \cup Cross(s, Insert(R, "negative: "), "-", "\"true\" ")

\* graph_unit2 with insert_space in place of the non-breaking separator
graph_unit2_ordinary_space(s, R) ==
    ApplyAt(s, insert_space(delete_space(s, Cross(s, R, "/", "per"))), graph_unit_spaced)

\* graph_unit2: "/" to "per", spaces deleted, the separator, the unit
graph_unit2(s, R) ==
    ApplyAt(s,
            Insert(delete_space(s, Cross(s, R, "/", "per")),
                   NEMO_NON_BREAKING_SPACE),
            graph_unit_spaced)

\* optional_graph_unit2
optional_graph_unit2(s, R) ==
    R \cup graph_unit2(s, Insert(delete_space(s, R), NEMO_NON_BREAKING_SPACE))

\* unit_plural
unit_plural(s, R) ==
    Insert(optional_graph_unit2(s, ApplyAt(s, Insert(R, "units: \""), graph_unit_plural))
             \cup graph_unit2(s, Insert(R, "units: \"")),
           "\"")

\* unit_singular
unit_singular(s, R) ==
    Insert(optional_graph_unit2(s, ApplyAt(s, Insert(R, "units: \""), graph_unit_spaced))
             \cup graph_unit2(s, Insert(R, "units: \"")),
           "\"")

(***************************************************************************)
(* MeasureFst.__init__: the branches of final_graph                        *)
(***************************************************************************)
\* cardinal_graph without the subtraction of "1"
cardinal_graph_including_one(str) == cardinal_graph_of(str)

\* (NEMO_SIGMA - "1") @ cardinal_graph
cardinal_graph_not_one(str) == IF str = "1" THEN {} ELSE cardinal_graph_of(str)

\* cross("1", "one")
cross_one(str) == IF str = "1" THEN {"one"} ELSE {}

subgraph_decimal(s) ==
    unit_plural(s,
        Insert(delete_space(s,
                   ApplyAt(s, optional_graph_negative(s, Insert(Start, "decimal { ")),
                           decimal_final_graph_wo_negative)),
               " } "))

\* the first alternative of subgraph_cardinal: not "1", plural unit
subgraph_cardinal_plural(s) ==
    unit_plural(s,
        Insert(delete_space(s,
                   ApplyAt(s,
                           Insert(optional_graph_negative(s, Insert(Start, "cardinal { ")),
                                  "integer: \""),
                           cardinal_graph_not_one)),
               "\" } "))

\* the second alternative of subgraph_cardinal: "1", singular unit
subgraph_cardinal_singular(s) ==
    unit_singular(s,
        Insert(delete_space(s,
                   ApplyAt(s,
                           Insert(optional_graph_negative(s, Insert(Start, "cardinal { ")),
                                  "integer: \""),
                           cross_one)),
               "\" } "))

subgraph_cardinal(s) == subgraph_cardinal_plural(s) \cup subgraph_cardinal_singular(s)

unit_graph(s) ==
    Insert(ApplyAt(s,
                   Insert(delete_space(s,
                              Cross(s, Insert(Start, "cardinal { integer: \"-\" } units: \""),
                                    "/", "per")
                              \cup Cross(s, Insert(Start, "cardinal { integer: \"-\" } units: \""),
                                         "per", "per")),
                          NEMO_NON_BREAKING_SPACE),
                   graph_unit_spaced),
           "\" preserve_order: true")

\* cardinal_dash_alpha with the dash deleted, as decimal_dash_alpha does
cardinal_dash_alpha_dropping_dash(s) ==
    Insert(ClosureOf(s,
                     Insert(Cross(s, cardinal_graph(s, Insert(Start, "cardinal { integer: \"")),
                                  "-", ""),
                            "\" } units: \""),
                     NEMO_ALPHA, 1),
           "\"")

cardinal_dash_alpha(s) ==
    Insert(ClosureOf(s,
                     Insert(Accep(s, cardinal_graph(s, Insert(Start, "cardinal { integer: \"")),
                                  "-"),
                            "\" } units: \""),
                     NEMO_ALPHA, 1),
           "\"")

alpha_dash_cardinal(s) ==
    Insert(cardinal_graph(s,
               Insert(Accep(s, ClosureOf(s, Insert(Start, "units: \""), NEMO_ALPHA, 1), "-"),
                      "\" cardinal { integer: \"")),
           "\" } preserve_order: true")

decimal_dash_alpha(s) ==
    Insert(ClosureOf(s,
                     Insert(Cross(s, ApplyAt(s, Insert(Start, "decimal { "),
                                             decimal_final_graph_wo_negative),
                                  "-", ""),
                            " } units: \""),
                     NEMO_ALPHA, 1),
           "\"")

decimal_times(s) ==
    Insert((LET R == Insert(ApplyAt(s, Insert(Start, "decimal { "),
                                    decimal_final_graph_wo_negative),
                            " } units: \"")
            IN Cross(s, R, "x", "x") \cup Cross(s, R, "X", "x")),
           "\"")

alpha_dash_decimal(s) ==
    Insert(ApplyAt(s,
               Insert(Accep(s, ClosureOf(s, Insert(Start, "units: \""), NEMO_ALPHA, 1), "-"),
                      "\" decimal { "),
               decimal_final_graph_wo_negative),
           " } preserve_order: true")

subgraph_fraction(s) ==
    unit_plural(s,
        Insert(delete_space(s, ApplyAt(s, Insert(Start, "fraction { "), fraction_graph)),
               " } "))

\* math_operations
math_operations(str) == StringMap(math_operations_table, str)

\* delimiter = accep(" ") | insert(" ")
delimiter(s, R) == Accep(s, R, " ") \cup Insert(R, " ")

\* cardinal_graph | NEMO_ALPHA
cardinal_or_alpha(s, R) ==
    cardinal_graph(s, R)
    \cup UNION {Accep(s, R, c) : c \in NEMO_ALPHA}

\* math with "=" accepted as it is instead of crossed to "equals"
math_keeping_equals_sign(s) ==
    LET a  == cardinal_or_alpha(s, Insert(Start, "units: \"math\" cardinal { integer: \""))
        op == ApplyAt(s, delimiter(s, a), math_operations)
        d  == delimiter(s, op) \cup UNION {Accep(s, op, c) : c \in NEMO_ALPHA}
        b  == delimiter(s, cardinal_graph(s, d))
        eq == delimiter(s, Accep(s, b, "="))
    IN Insert(cardinal_or_alpha(s, eq), "\" } preserve_order: true")

math(s) ==
    LET a  == cardinal_or_alpha(s, Insert(Start, "units: \"math\" cardinal { integer: \""))
        op == ApplyAt(s, delimiter(s, a), math_operations)
        d  == delimiter(s, op) \cup UNION {Accep(s, op, c) : c \in NEMO_ALPHA}
        b  == delimiter(s, cardinal_graph(s, d))
        eq == delimiter(s, Cross(s, b, "=", "equals"))
    IN Insert(cardinal_or_alpha(s, eq), "\" } preserve_order: true")

(***************************************************************************)
(* MeasureFst.get_address_graph                                            *)
(***************************************************************************)
\* the weights, in thousandths
SplitNumberWeight == -1

DirectionWeight == -1000

ZipCodeWeight == -100000

TrailingClauseWeight == -1

\* NEMO_DIGIT ** (1, 2) @ graph_hundred_component_at_least_one_none_zero_digit
address_num_prefix(str) ==
    IF Len(str) \in {1, 2} /\ AllIn(str, 1, Len(str), NEMO_DIGIT)
    THEN graph_hundred_component_at_least_one_none_zero_digit(str)
    ELSE {}

\* NEMO_DIGIT ** 2 @ (closure(cross("0", "zero "), 0, 1) + hundred component)
address_num_suffix(str) ==
    IF Len(str) = 2 /\ AllIn(str, 1, 2, NEMO_DIGIT)
    THEN graph_hundred_component_at_least_one_none_zero_digit(str)
         \cup (IF Ch(str, 1) = "0"
               THEN {"zero " \o h :
                       h \in graph_hundred_component_at_least_one_none_zero_digit(Ch(str, 2))}
               ELSE {})
    ELSE {}

\* the split spelling of a run of 3 or 4 digits: prefix, a space, suffix
address_num_split(str) ==
    IF Len(str) \in {3, 4} /\ AllIn(str, 1, Len(str), NEMO_DIGIT)
    THEN UNION {{p \o " " \o q : p \in address_num_prefix(SubSeq(str, 1, k)),
                                 q \in address_num_suffix(SubSeq(str, k + 1, Len(str)))} :
                   k \in 1..(Len(str) - 1)}
    ELSE {}

\* address_num with the split spelling left unweighted
address_num_unweighted(s, R) ==
    ApplyAt(s, R, address_num_split) \cup cardinal_graph(s, R)

\* address_num: the weighted split spelling, or cardinal.graph
address_num(s, R) ==
    AddWeight(ApplyAt(s, R, address_num_split), SplitNumberWeight)
    \cup cardinal_graph(s, R)

\* direction: a space, E/S/W/N expanded, an optional period deleted; optional
direction(s, R) ==
    LET sp == Accep(s, R, NEMO_SPACE)
        d  == Cross(s, sp, "E", "East") \cup Cross(s, sp, "S", "South")
              \cup Cross(s, sp, "W", "West") \cup Cross(s, sp, "N", "North")
    IN R \cup AddWeight(d \cup Cross(s, d, ".", ""), DirectionWeight)

\* get_formats(address_words.tsv)
address_words_lexicon(str) == StringMap(get_formats(address_words_table), str)

\* address_words: a space, an ordinal or a word, a space, words, a street word
address_words(s, R) ==
    LET sp    == Accep(s, R, NEMO_SPACE)
        first == sp \cup ApplyAt(s, sp, ordinal_num) \cup ClosureOf(s, sp, NEMO_ALPHA, 1)
        rest  == ClosureOf(s, Accep(s, first, NEMO_SPACE), NEMO_ALPHA \cup {NEMO_SPACE}, 0)
    IN ApplyAt(s, rest, address_words_lexicon)

\* city: ", " and a run of letters and spaces; optional
city(s, R) ==
    R \cup ClosureOf(s, Accep(s, Accep(s, R, ","), NEMO_SPACE),
                     NEMO_ALPHA \cup {NEMO_SPACE}, 1)

\* states, each also with a period after its first letter, inverted
state_graph_inverted(str) ==
    {p[1] : p \in {q \in states_table :
                     \/ q[2] = str
                     \/ Ch(q[2], 1) \o "." \o Tail(q[2]) = str}}

\* state: ", " and a state abbreviation, expanded; optional
state(s, R) ==
    R \cup ApplyAt(s, Accep(s, Accep(s, R, ","), NEMO_SPACE), state_graph_inverted)

\* NEMO_DIGIT ** 5 @ cardinal.single_digits_graph
zip_code_digits(str) ==
    IF Len(str) = 5 /\ AllIn(str, 1, 5, NEMO_DIGIT)
    THEN {single_digits_graph(str)} ELSE {}

\* zip_code: an optional comma, a space, five digits; weighted; optional
zip_code(s, R) ==
    R \cup AddWeight(ApplyAt(s, Accep(s, R \cup Accep(s, R, ","), NEMO_SPACE),
                             zip_code_digits),
                     ZipCodeWeight)

\* closure(add_weight(city + state + zip_code, -0.001), 0, 1)
trailing_clause(s, R) ==
    R \cup AddWeight(zip_code(s, state(s, city(s, R))), TrailingClauseWeight)

\* the lm alternative: stop after the street words, a trailing period deleted
lm_alternative(s, R, islm) == IF islm THEN R \cup Cross(s, R, ".", "") ELSE {}

\* get_address_graph
get_address_graph(s, R, islm) ==
    LET words == address_words(s, direction(s, address_num(s, R)))
    IN trailing_clause(s, words) \cup lm_alternative(s, words, islm)

\* address, as wrapped in __init__
address(s, islm) ==
    Insert(get_address_graph(s, Insert(Start, "units: \"address\" cardinal { integer: \""),
                             islm),
           "\" } preserve_order: true")

\* GraphFst.add_tokens of the "measure" classifier; the paths that consume
\* the whole input are the accepting ones
add_tokens(s, R) ==
    {[r EXCEPT !.out = "measure { " \o @ \o " }"] : r \in Complete(s, R)}

\* the outputs of the minimum-weight accepting paths
ShortestPaths(R) == {r.out : r \in {q \in R : \A o \in R : q.w <= o.w}}

(***************************************************************************)
(* Inputs                                                                  *)
(***************************************************************************)
\* quantities 0..MaxQuantity are tried with every unit
MaxQuantity == 3

\* unit strings of up to MaxUnitLen letters are tried against the lexicon
MaxUnitLen == 2

\* house numbers of up to MaxHouseDigits digits are tried
MaxHouseDigits == 4

RECURSIVE Numeral(_)
\* the decimal numeral of n
Numeral(n) ==
    IF n < 10 THEN Ch("0123456789", n + 1)
    ELSE Numeral(n \div 10) \o Ch("0123456789", (n % 10) + 1)

RECURSIVE Strings(_, _)
\* the strings of 1..n characters of S
Strings(S, n) ==
    IF n = 0 THEN {}
    ELSE S \cup {a \o b : a \in S, b \in Strings(S, n - 1)}

Quantities == {Numeral(n) : n \in 0..MaxQuantity} \cup {"10", "12", "01"}

WrittenUnits == {"kg", "KG", "Kg", "kG", "km", "h", "ft", "in", "c", "C", "f", "xx"}

QuantityInputs ==
    {sign \o q \o sep \o u \o per :
        sign \in {"", "-"}, q \in Quantities, sep \in {"", " "},
        u \in WrittenUnits, per \in {"", "/h", " / h"}}

DashInputs ==
    {q \o "-" \o w : q \in Quantities, w \in {"bedroom", "kg"}}
    \cup {w \o "-" \o q : q \in Quantities, w \in {"category", "kg"}}

MathInputs ==
    {a \o sep \o op \o sep \o "2" \o sep \o eq \o sep \o c :
        a \in {"2", "x"}, op \in {"+", "*", "plus"}, eq \in {"=", "equals"},
        c \in {"4", "y"}, sep \in {"", " "}}

OtherInputs ==
    {".5kg", "4.5x", "2.5 km/h", "1.5-inch", "inch-1.5", "1/2 ft", "/h", "per h",
     "2 /h", "1/h", "kg", "12", "5-bedroom", "category-5",
     "2788 San Tomas Expy, Santa Clara, CA 95051", "12 Main St, CA", "12 Main St"}

MeasureInputs == QuantityInputs \cup DashInputs \cup MathInputs \cup OtherInputs

UnitLetters == {"k", "K", "g", "G", "m", "M", "h", "H", "c", "C", "f", "F", "t", "T"}

UnitInputs == Strings(UnitLetters, MaxUnitLen)

HouseDigits == {"0", "1", "2", "7"}

AddressInputs ==
    {n \o " Main St" : n \in Strings(HouseDigits, MaxHouseDigits)}
    \cup {n \o d \o street \o tail :
            n \in {"12", "2788"},
            d \in {"", " E", " N."},
            street \in {" Main St", " San Tomas Expy", " 82nd St", " Main Rd."},
            tail \in {"", ".", ", CA", ", Santa Clara", ", Santa Clara, CA 95051",
                      ", T.X, 95051", " 95051"}}

(***************************************************************************)
(* The measure classifier: final_graph is the union of the branches, then  *)
(* add_tokens; a decode returns the outputs of the lightest paths.         *)
(***************************************************************************)
\* the paths of one branch of the union, labelled with the branch
Branch(R, name) ==
    {[pos |-> r.pos, out |-> r.out, w |-> r.w, branch |-> name] : r \in R}

Init ==
    /\ input \in MeasureInputs
    /\ lm = FALSE
    /\ pc = "subgraph_decimal"
    /\ paths = {}
    /\ output = {}

SubgraphDecimal ==
    /\ pc = "subgraph_decimal"
    /\ paths' = paths \cup Branch(subgraph_decimal(input), "subgraph_decimal")
    /\ pc' = "subgraph_cardinal"
    /\ UNCHANGED <<input, lm, output>>

SubgraphCardinal ==
    /\ pc = "subgraph_cardinal"
    /\ paths' = paths \cup Branch(subgraph_cardinal(input), "subgraph_cardinal")
    /\ pc' = "unit_graph"
    /\ UNCHANGED <<input, lm, output>>

UnitGraph ==
    /\ pc = "unit_graph"
    /\ paths' = paths \cup Branch(unit_graph(input), "unit_graph")
    /\ pc' = "cardinal_dash_alpha"
    /\ UNCHANGED <<input, lm, output>>

CardinalDashAlpha ==
    /\ pc = "cardinal_dash_alpha"
    /\ paths' = paths \cup Branch(cardinal_dash_alpha(input), "cardinal_dash_alpha")
    /\ pc' = "alpha_dash_cardinal"
    /\ UNCHANGED <<input, lm, output>>

AlphaDashCardinal ==
    /\ pc = "alpha_dash_cardinal"
    /\ paths' = paths \cup Branch(alpha_dash_cardinal(input), "alpha_dash_cardinal")
    /\ pc' = "decimal_dash_alpha"
    /\ UNCHANGED <<input, lm, output>>

DecimalDashAlpha ==
    /\ pc = "decimal_dash_alpha"
    /\ paths' = paths \cup Branch(decimal_dash_alpha(input), "decimal_dash_alpha")
    /\ pc' = "decimal_times"
    /\ UNCHANGED <<input, lm, output>>

DecimalTimes ==
    /\ pc = "decimal_times"
    /\ paths' = paths \cup Branch(decimal_times(input), "decimal_times")
    /\ pc' = "alpha_dash_decimal"
    /\ UNCHANGED <<input, lm, output>>

AlphaDashDecimal ==
    /\ pc = "alpha_dash_decimal"
    /\ paths' = paths \cup Branch(alpha_dash_decimal(input), "alpha_dash_decimal")
    /\ pc' = "subgraph_fraction"
    /\ UNCHANGED <<input, lm, output>>

SubgraphFraction ==
    /\ pc = "subgraph_fraction"
    /\ paths' = paths \cup Branch(subgraph_fraction(input), "subgraph_fraction")
    /\ pc' = "address"
    /\ UNCHANGED <<input, lm, output>>

Address ==
    /\ pc = "address"
    /\ paths' = paths \cup Branch(address(input, lm), "address")
    /\ pc' = "math"
    /\ UNCHANGED <<input, lm, output>>

Math ==
    /\ pc = "math"
    /\ paths' = paths \cup Branch(math(input), "math")
    /\ pc' = "add_tokens"
    /\ UNCHANGED <<input, lm, output>>

AddTokens ==
    /\ pc = "add_tokens"
    /\ paths' = add_tokens(input, paths)
    /\ pc' = "decode"
    /\ UNCHANGED <<input, lm, output>>

Decode ==
    /\ pc = "decode"
    /\ output' = ShortestPaths(paths)
    /\ pc' = "done"
    /\ UNCHANGED <<input, lm, paths>>

Next ==
    \/ SubgraphDecimal
    \/ SubgraphCardinal
    \/ UnitGraph
    \/ CardinalDashAlpha
    \/ AlphaDashCardinal
    \/ DecimalDashAlpha
    \/ DecimalTimes
    \/ AlphaDashDecimal
    \/ SubgraphFraction
    \/ Address
    \/ Math
    \/ AddTokens
    \/ Decode

Spec == Init /\ [][Next]_vars

(***************************************************************************)
(* The unit lexicon on its own: a written unit through graph_unit, its     *)
(* plural and its convert_space form.                                      *)
(***************************************************************************)
InitUnit ==
    /\ input \in UnitInputs
    /\ lm = FALSE
    /\ pc = "graph_unit"
    /\ paths = {}
    /\ output = {}

GraphUnit ==
    /\ pc = "graph_unit"
    /\ paths' = Branch(Complete(input, ApplyAt(input, Start, graph_unit)), "graph_unit")
    /\ pc' = "graph_unit_plural"
    /\ UNCHANGED <<input, lm, output>>

GraphUnitPlural ==
    /\ pc = "graph_unit_plural"
    /\ paths' = paths \cup Branch(Complete(input, ApplyAt(input, Start, graph_unit_plural)),
                                  "graph_unit_plural")
    /\ pc' = "graph_unit_spaced"
    /\ UNCHANGED <<input, lm, output>>

GraphUnitSpaced ==
    /\ pc = "graph_unit_spaced"
    /\ paths' = paths \cup Branch(Complete(input, ApplyAt(input, Start, graph_unit_spaced)),
                                  "graph_unit_spaced")
    /\ pc' = "done"
    /\ UNCHANGED <<input, lm, output>>

NextUnit == GraphUnit \/ GraphUnitPlural \/ GraphUnitSpaced

SpecUnit == InitUnit /\ [][NextUnit]_vars

(***************************************************************************)
(* get_address_graph component by component, then the wrapping of          *)
(* __init__ and a decode.                                                  *)
(***************************************************************************)
InitAddress ==
    /\ input \in AddressInputs
    /\ lm \in BOOLEAN
    /\ pc = "address_num"
    /\ paths = {}
    /\ output = {}

AddressNum ==
    /\ pc = "address_num"
    /\ paths' = address_num(input, Start)
    /\ pc' = "direction"
    /\ UNCHANGED <<input, lm, output>>

Direction ==
    /\ pc = "direction"
    /\ paths' = direction(input, paths)
    /\ pc' = "address_words"
    /\ UNCHANGED <<input, lm, output>>

AddressWords ==
    /\ pc = "address_words"
    /\ paths' = address_words(input, paths)
    /\ pc' = "trailing_clause"
    /\ UNCHANGED <<input, lm, output>>

TrailingClause ==
    /\ pc = "trailing_clause"
    /\ paths' = trailing_clause(input, paths) \cup lm_alternative(input, paths, lm)
    /\ pc' = "wrap"
    /\ UNCHANGED <<input, lm, output>>

WrapAddress ==
    /\ pc = "wrap"
    /\ paths' = Complete(input,
                    {[r EXCEPT !.out = "units: \"address\" cardinal { integer: \"" \o @
                                       \o "\" } preserve_order: true"] : r \in paths})
    /\ pc' = "decode"
    /\ UNCHANGED <<input, lm, output>>

DecodeAddress ==
    /\ pc = "decode"
    /\ output' = ShortestPaths(paths)
    /\ pc' = "done"
    /\ UNCHANGED <<input, lm, paths>>

NextAddress ==
    \/ AddressNum
    \/ Direction
    \/ AddressWords
    \/ TrailingClause
    \/ WrapAddress
    \/ DecodeAddress

SpecAddress == InitAddress /\ [][NextAddress]_vars

(***************************************************************************)
(* Reading an output string                                                *)
(***************************************************************************)
\* the first position of sub in str, 0 when it does not occur
Find(str, sub) ==
    LET at == {i \in 1..(Len(str) - Len(sub) + 1) : SubSeq(str, i, i + Len(sub) - 1) = sub}
    IN IF at = {} THEN 0 ELSE CHOOSE i \in at : \A j \in at : i <= j

Contains(str, sub) == Find(str, sub) > 0

StartsWith(str, pre) == Len(str) >= Len(pre) /\ SubSeq(str, 1, Len(pre)) = pre

\* the text of the field name: "..." of a token string
Field(o, name) ==
    LET key  == name \o ": \""
        rest == SubSeq(o, Find(o, key) + Len(key), Len(o))
    IN SubSeq(rest, 1, Find(rest, "\"") - 1)

\* the digits of the input after an optional minus sign
QuantityOf(str) ==
    LET a == IF Ch(str, 1) = "-" THEN 2 ELSE 1
        e == CHOOSE j \in RunEnds(str, a, NEMO_DIGIT) :
                 \A k \in RunEnds(str, a, NEMO_DIGIT) : k <= j
    IN SubSeq(str, a, e - 1)

PerJoin == NEMO_NON_BREAKING_SPACE \o "per" \o NEMO_NON_BREAKING_SPACE

\* the part of a units string before "per"
UnitBeforePer(u) == IF Contains(u, PerJoin) THEN SubSeq(u, 1, Find(u, PerJoin) - 1) ELSE u

\* the part of a units string after "per"
UnitAfterPer(u) == SubSeq(u, Find(u, PerJoin) + Len(PerJoin), Len(u))

SingularUnitNames ==
    {"kilogram", "kilometer", "hour", "foot", "inch",
     "degree" \o NEMO_NON_BREAKING_SPACE \o "Celsius",
     "degree" \o NEMO_NON_BREAKING_SPACE \o "Fahrenheit"}

PluralUnitNames ==
    {"kilograms", "kilometers", "hours", "feet", "inches",
     "degrees Celsius", "degrees Fahrenheit"}

\* the outputs one transducer gave for the input
OutputsOf(name) == {p.out : p \in {q \in paths : q.branch = name}}

(***************************************************************************)
(* Claims                                                                  *)
(***************************************************************************)
\* C1: a cardinal quantity followed by a unit: the number "1" gives
\* integer: "one" with the singular unit name, every other number gives a
\* number name other than "one" with the plural unit name.
C1_SingularOnlyForOne ==
    pc = "done" =>
        \A p \in {q \in paths : /\ q.branch = "subgraph_cardinal"
                                /\ ~StartsWith(Field(q.out, "units"),
                                               "per" \o NEMO_NON_BREAKING_SPACE)} :
            LET u == UnitBeforePer(Field(p.out, "units"))
            IN IF QuantityOf(input) = "1"
               THEN Field(p.out, "integer") = "one" /\ u \in SingularUnitNames
               ELSE Field(p.out, "integer") # "one" /\ u \in PluralUnitNames

C1_Witness ==
    /\ pc = "done"
    /\ input = "1kg"
    /\ output = {"measure { cardinal { integer: \"one\" } units: \"kilogram\" }"}

\* C2: a leading "-" is emitted as negative: "true" before the
\* cardinal { ... } block; "-12kg" gives
\* measure { negative: "true" cardinal { integer: "twelve" } units: "kilograms" }.
C2_NegativeBeforeCardinal ==
    pc = "done" =>
        /\ input = "-12kg" =>
              output = {"measure { negative: \"true\" cardinal { integer: \"twelve\" } "
                        \o "units: \"kilograms\" }"}
        /\ \A p \in paths :
              (p.branch = "subgraph_cardinal" /\ Ch(input, 1) = "-") =>
                  Contains(p.out, "negative: \"true\" cardinal { integer: ")

\* C3: every accepted input has exactly one minimum-cost output string.
C3_SingleShortestOutput == pc = "done" => Cardinality(output) <= 1

\* the leading digits of the input
HouseNumber(str) ==
    LET e == CHOOSE j \in RunEnds(str, 1, NEMO_DIGIT) :
                 \A k \in RunEnds(str, 1, NEMO_DIGIT) : k <= j
    IN SubSeq(str, 1, e - 1)

\* the prefix spelled, then the two-digit suffix with a leading zero as "zero"
SplitSpelling(h) ==
    LET pre == SubSeq(h, 1, Len(h) - 2)
        suf == SubSeq(h, Len(h) - 1, Len(h))
    IN Spell(NumVal(pre)) \o " "
       \o (IF Ch(suf, 1) = "0" THEN "zero " \o Spell(NumVal(Ch(suf, 2)))
           ELSE Spell(NumVal(suf)))

\* the lightest spellings of the whole house number after address_num
HouseNumberSpellings ==
    ShortestPaths({p \in paths : p.pos = Len(HouseNumber(input)) + 1})

AddressOf(words) ==
    "units: \"address\" cardinal { integer: \"" \o words \o "\" } preserve_order: true"

C5_DocstringExample ==
    (pc = "done" /\ input = "2788 San Tomas Expy, Santa Clara, CA 95051") =>
        output = {AddressOf("two seven eight eight San Tomas Expressway Santa Clara "
                            \o "California nine five zero five one")}

MathOf(text) ==
    "measure { units: \"math\" cardinal { integer: \"" \o text
    \o "\" } preserve_order: true }"

\* C6 as stated: the math branch puts the equation text of the input in the
\* integer field; "2 plus 2 equals 4" is accepted and gives itself.
C6_LiteralEquationText ==
    pc = "done" =>
        /\ input = "2 plus 2 equals 4" => output = {MathOf("2 plus 2 equals 4")}
        /\ \A p \in paths : p.branch = "math" => p.out = MathOf(input)

\* C6 amended: the math branch accepts an equation written with an operator
\* sign and "=", and puts its spoken form in the integer field: numbers by
\* their names, the operator by its word, "=" as "equals", single spaces
\* between them.  "2 + 2 = 4" gives "two plus two equals four"; an input
\* with the words "plus" or "equals" is not accepted.
C6_SpokenEquation ==
    pc = "done" =>
        /\ input = "2 + 2 = 4" => output = {MathOf("two plus two equals four")}
        /\ input = "x*2=y" => output = {MathOf("x times two equals y")}
        /\ (Contains(input, "plus") \/ Contains(input, "equals")) => output = {}
        /\ \A p \in paths :
              p.branch = "math" =>
                  LET text == Field(p.out, "integer")
                  IN /\ p.out = MathOf(text)
                     /\ Contains(input, "=")
                     /\ Contains(text, " equals ")
                     /\ \A c \in NEMO_DIGIT \cup {"=", "+", "*"} : ~Contains(text, c)

C6_Witness ==
    /\ pc = "done"
    /\ input = "2 + 2 = 4"
    /\ output = {MathOf("two plus two equals four")}

\* C7: a unit followed by "/X" gives the units string unit, "per", X, with
\* "per" joined on both sides by the non-breaking separator and never by an
\* ordinary space; spaces of the input around "/" are deleted.
C7_PerJoinedByNonBreakingSpace ==
    pc = "done" =>
        \A p \in {q \in paths : /\ q.branch \in {"subgraph_cardinal", "subgraph_decimal"}
                                /\ Contains(input, "/")
                                /\ ~StartsWith(Field(q.out, "units"), "per")} :
            LET u == Field(p.out, "units")
            IN /\ Contains(u, PerJoin)
               /\ ~Contains(u, " per")
               /\ ~Contains(u, "per ")
               /\ UnitBeforePer(u) \in SingularUnitNames \cup PluralUnitNames
               /\ UnitAfterPer(u) \in SingularUnitNames

C7_Witness ==
    /\ pc = "done"
    /\ input = "10 km / h"
    /\ output = {"measure { cardinal { integer: \"ten\" } units: \"kilometers"
                 \o NEMO_NON_BREAKING_SPACE \o "per" \o NEMO_NON_BREAKING_SPACE
                 \o "hour\" }"}

\* C8: a unit named "degree Celsius" or "degree Fahrenheit" has the plural
\* "degrees Celsius" / "degrees Fahrenheit", and the plural transducer never
\* puts these names through the singular-to-plural mapping.
C8_DegreesPlural ==
    pc = "done" =>
        /\ \A d \in {"Celsius", "Fahrenheit"} :
              ("degree " \o d) \in OutputsOf("graph_unit") =>
                  OutputsOf("graph_unit_plural") = {"degrees " \o d}
        /\ \A o \in OutputsOf("graph_unit_plural") :
              ~Contains(o, "Celsiuses") /\ ~Contains(o, "Fahrenheits")

C8_Witness ==
    /\ pc = "done"
    /\ input = "C"
    /\ OutputsOf("graph_unit") = {"degree Celsius"}
    /\ OutputsOf("graph_unit_plural") = {"degrees Celsius"}

RECURSIVE FoldCase(_)
\* str with every upper-case letter lower-cased
FoldCase(str) ==
    IF Len(str) = 0 THEN "" ELSE UpperToLower(Ch(str, 1)) \o FoldCase(Tail(str))

\* the upper-case letters of str are a run at its start
UpperCaseLeads(str) ==
    \A i \in 1..Len(str), j \in 1..Len(str) :
        (i < j /\ Ch(str, j) \in UpperSet) => Ch(str, i) \in UpperSet

\* C9 as stated: a unit string that differs from a key of the unit table
\* only in letter case is accepted with the key's unit name.
C9_CaseInsensitive ==
    pc = "done" =>
        \A k \in measurements :
            FoldCase(input) = FoldCase(k[1]) => k[2] \in OutputsOf("graph_unit")

\* C9 amended: a unit string that differs from a lower-case key only in
\* letter case is accepted with the key's unit name exactly when its
\* upper-case letters are a run at its start ("KG", "Kg", not "kG").
C9_LeadingUpperCaseOnly ==
    pc = "done" =>
        \A k \in measurements :
            FoldCase(input) = k[1] =>
                (k[2] \in OutputsOf("graph_unit") <=> UpperCaseLeads(input))

C9_Witness ==
    /\ pc = "done"
    /\ input = "Kg"
    /\ OutputsOf("graph_unit") = {"kilogram"}

DashAt == Find(input, "-")

BeforeDash == SubSeq(input, 1, DashAt - 1)

AfterDash == SubSeq(input, DashAt + 1, Len(input))

\* C10 as stated: the dash is only a separator: "5-bedroom" gives the
\* integer field "five" and the units field "bedroom", "category-5" the
\* units field "category" and the integer field "five", with
\* preserve_order: true in the second form only.
C10_DashOnlySeparates ==
    pc = "done" =>
        \A p \in paths :
            /\ p.branch = "cardinal_dash_alpha" =>
                  /\ Field(p.out, "integer") = Spell(NumVal(BeforeDash))
                  /\ Field(p.out, "units") = AfterDash
                  /\ ~Contains(p.out, "preserve_order")
            /\ p.branch = "alpha_dash_cardinal" =>
                  /\ Field(p.out, "units") = BeforeDash
                  /\ Field(p.out, "integer") = Spell(NumVal(AfterDash))
                  /\ Contains(p.out, "preserve_order: true")

\* C10 amended: the dash is kept in the field before it: "5-bedroom" gives
\* the integer field "five-" and then the units field "bedroom",
\* "category-5" the units field "category-" and then the integer field
\* "five", with preserve_order: true in the second form only.
C10_DashKept ==
    pc = "done" =>
        \A p \in paths :
            /\ p.branch = "cardinal_dash_alpha" =>
                  /\ Field(p.out, "integer") = Spell(NumVal(BeforeDash)) \o "-"
                  /\ Field(p.out, "units") = AfterDash
                  /\ Find(p.out, "cardinal {") < Find(p.out, "units:")
                  /\ ~Contains(p.out, "preserve_order")
            /\ p.branch = "alpha_dash_cardinal" =>
                  /\ Field(p.out, "units") = BeforeDash \o "-"
                  /\ Field(p.out, "integer") = Spell(NumVal(AfterDash))
                  /\ Find(p.out, "units:") < Find(p.out, "cardinal {")
                  /\ Contains(p.out, "preserve_order: true")

C10_Witness ==
    /\ pc = "done"
    /\ input = "5-bedroom"
    /\ output = {"measure { cardinal { integer: \"five-\" } units: \"bedroom\" }"}

====
